---- MODULE Spec2Model ----
(***************************************************************************)
(* Verification model of the Sekha Python SDK: the sliding-window          *)
(* RateLimiter (sekha/utils.py) and the request dispatch / error           *)
(* translation of SekhaClient (sekha/client.py).                           *)
(*                                                                         *)
(* Time is a discrete clock.  Tasks are asyncio tasks of one event loop:   *)
(* code between two awaits runs as one atomic step.                        *)
(***************************************************************************)
EXTENDS Integers, Sequences, FiniteSets, TLC

\* ------------------------------------------------------------------ bounds
NumTasks == 2      \* concurrent asyncio tasks
MaxBudget == 2     \* largest max_requests tried
MaxWindow == 2     \* largest window_seconds tried (clock ticks)
MaxTime == 3       \* the clock stops advancing here
MaxCalls == 3      \* acquire() calls started in one behaviour
MaxBase == 2       \* largest base_delay tried
MaxCap == 5        \* largest max_delay tried
MaxFactor == 2     \* largest factor tried
MaxAttempt == 3    \* wait() is not called with a larger attempt counter

HashMod == 10      \* the modulus applied to the task's hash

Tasks == 1..NumTasks

VARIABLES
    max_requests,    \* RateLimiter.max_requests
    window_seconds,  \* RateLimiter.window_seconds
    requests,        \* RateLimiter.requests: recorded timestamps
    locked,          \* RateLimiter._lock: held or not
    waiters,         \* RateLimiter._lock: FIFO of tasks waiting for it
    clock,           \* time.time()
    pc,              \* where each task is suspended
    call,            \* the acquire() call each task is inside (locals + bookkeeping)
    started,         \* acquire() calls started so far
    log,             \* completed acquire() calls, in order of return
    cl,              \* the SekhaClient operation each task is running
    httpSent,        \* HTTP requests handed to the transport so far
    max_retries,     \* ClientConfig.max_retries
    base_delay,      \* ExponentialBackoff.base_delay
    max_delay,       \* ExponentialBackoff.max_delay
    factor,          \* ExponentialBackoff.factor
    attempt,         \* ExponentialBackoff.attempt
    bw,              \* the wait() call each task is inside, or was last (locals)
    lastCall         \* the ExponentialBackoff method that acted last

backoffVars == <<base_delay, max_delay, factor, attempt, bw, lastCall>>

vars == <<max_requests, window_seconds, requests, locked, waiters, clock,
          pc, call, started, log, cl, httpSent, max_retries, backoffVars>>

\* ------------------------------------------------------------- helpers
Range(s) == {s[i] : i \in 1..Len(s)}

MinOf(S) == CHOOSE x \in S : \A y \in S : x <= y

MaxOf(S) == CHOOSE x \in S : \A y \in S : x >= y

\* t: clock at the call; ccnt, coldest: timestamps inside the window at the call
\* and the oldest of them; now: the local `now`; cnt, oldest: the same after the
\* pruning step; wake: end of the sleep; free: the lock was free at the call;
\* susp: the call was suspended (on the lock or in a sleep).
NoCall == [t |-> -1, ccnt |-> -1, coldest |-> -1, now |-> -1, cnt |-> -1,
           oldest |-> -1, wake |-> -1, free |-> FALSE, susp |-> FALSE]

OldestOf(reqs) == IF reqs = <<>> THEN -1 ELSE MinOf(Range(reqs))

\* ------------------------------------------- SekhaClient: error translation
\* What one HTTP attempt (the body of a method's try block) ends in: a decoded
\* response, or an exception raised inside the block.
ErrorStatuses == {400, 401, 404, 429, 500}
Bodies == {"", "detail"}
Labels == {"A", "B"}
Confidences == {40, 85, 95}
Thresholds == {80, 99}
MaxSuggestions == 2

Suggestions == [label : Labels, confidence : Confidences]

SuggestionLists == UNION {[1..n -> Suggestions] : n \in 0..MaxSuggestions}

\* str(e) of the exceptions the transport raises
Messages == {"Network failed", "MCP failed"}

\* text: the body of the error response; msg: str(e) of the exception
Failure(kind, status, text, msg) ==
    [kind |-> kind, status_code |-> status, text |-> text, msg |-> msg,
     data |-> <<>>]

Failures ==
    {Failure("httpx.HTTPStatusError", st, b, "status error") :
         st \in ErrorStatuses, b \in Bodies}
        \cup {Failure("httpx.TimeoutException", 0, "", "timeout"),
              Failure("httpx.ConnectError", 0, "", "refused")}
        \cup {Failure("Exception", 0, "", msg) : msg \in Messages}

Outcomes(m) ==
    Failures \cup
        {[kind |-> "ok", status_code |-> 200, text |-> "", msg |-> "", data |-> d] :
            d \in IF m = "suggest_labels" THEN SuggestionLists ELSE {<<>>}}

\* the classes of errors.py, all derived from SekhaError
SekhaErrors ==
    {"SekhaError", "SekhaAPIError", "SekhaNotFoundError", "SekhaAuthError",
     "SekhaConnectionError", "SekhaValidationError", "SekhaRateLimitError"}

\* isinstance: the classes an exception of class k is an instance of
Bases(k) ==
    IF k \in SekhaErrors THEN {k, "SekhaError", "Exception"} ELSE {k, "Exception"}

IsInstance(k, cls) == cls \in Bases(k)

\* how a method call ends: exc = "none" is a normal return of `value`; cause is
\* the str(e) of the caught exception that the raised one carries in its
\* message ("" when its message is a fixed text)
Return(v) ==
    [exc |-> "none", status_code |-> 0, response |-> "", cause |-> "", value |-> v]

Raise(e, status, text) ==
    [exc |-> e, status_code |-> status, response |-> text, cause |-> "",
     value |-> "none"]

\* raise e(f"...: {e}"): the message embeds that of the caught exception
Wrap(e, out) == [Raise(e, 0, "") EXCEPT !.cause = out.msg]

\* no except clause matches: the exception leaves the method as it is
Propagate(out) ==
    [Raise(out.kind, out.status_code, out.text) EXCEPT !.cause = out.msg]

NoResult == Return("none")

create_conversation(out) ==
    IF out.kind = "ok" THEN Return("ConversationResponse")
    ELSE IF IsInstance(out.kind, "httpx.HTTPStatusError")
    THEN IF out.status_code = 400
         THEN Raise("SekhaValidationError", 0, out.text)
         ELSE IF out.status_code = 401
         THEN Raise("SekhaAuthError", 0, "")
         ELSE Raise("SekhaAPIError", out.status_code, out.text)
    ELSE IF IsInstance(out.kind, "httpx.TimeoutException")
    THEN Raise("SekhaConnectionError", 0, "")
    ELSE IF IsInstance(out.kind, "Exception")
    THEN Wrap("SekhaError", out)
    ELSE Propagate(out)

\* get_conversation, update_label and delete_conversation share one shape:
\* a single `except httpx.HTTPStatusError`
NotFoundOrAPIError(out, v) ==
    IF out.kind = "ok" THEN Return(v)
    ELSE IF IsInstance(out.kind, "httpx.HTTPStatusError")
    THEN IF out.status_code = 404
         THEN Raise("SekhaNotFoundError", 0, "")
         ELSE Raise("SekhaAPIError", out.status_code, out.text)
    ELSE Propagate(out)

get_conversation(out) == NotFoundOrAPIError(out, "ConversationResponse")

\* (variant: update_label swallows every failure)
update_label_quiet(out) == Return("None")

update_label(out) == NotFoundOrAPIError(out, "None")

delete_conversation(out) == NotFoundOrAPIError(out, "None")

\* list_conversations, score_message_importance, generate_summary,
\* get_pruning_suggestions, suggest_labels and get_mcp_tools: a single
\* `except Exception`
AnyToSekhaError(out, v) ==
    IF out.kind = "ok" THEN Return(v)
    ELSE IF IsInstance(out.kind, "Exception")
    THEN Wrap("SekhaError", out)
    ELSE Propagate(out)

list_conversations(out) == AnyToSekhaError(out, "List[ConversationResponse]")

score_message_importance(out) == AnyToSekhaError(out, "ImportanceScore")

generate_summary(out) == AnyToSekhaError(out, "SummaryResponse")

get_pruning_suggestions(out) == AnyToSekhaError(out, "List[PruningSuggestion]")

suggest_labels(out) == AnyToSekhaError(out, "List[LabelSuggestion]")

get_mcp_tools(out) == AnyToSekhaError(out, "List[Dict]")

smart_query(out) ==
    IF out.kind = "ok" THEN Return("QueryResponse")
    ELSE IF IsInstance(out.kind, "httpx.HTTPStatusError")
    THEN IF out.status_code = 400
         THEN Raise("SekhaValidationError", 0, out.text)
         ELSE IF out.status_code = 401
         THEN Raise("SekhaAuthError", 0, "")
         ELSE Raise("SekhaAPIError", out.status_code, out.text)
    ELSE IF IsInstance(out.kind, "httpx.TimeoutException")
    THEN Raise("SekhaConnectionError", 0, "")
    ELSE IF IsInstance(out.kind, "httpx.ConnectError")
    THEN Wrap("SekhaConnectionError", out)
    ELSE IF IsInstance(out.kind, "Exception")
    THEN Wrap("SekhaError", out)
    ELSE Propagate(out)

export(out) ==
    IF out.kind = "ok" THEN Return("content")
    ELSE IF IsInstance(out.kind, "httpx.HTTPStatusError")
    THEN IF out.status_code = 400
         THEN Raise("SekhaValidationError", 0, out.text)
         ELSE Raise("SekhaAPIError", out.status_code, out.text)
    ELSE IF IsInstance(out.kind, "Exception")
    THEN Wrap("SekhaError", out)
    ELSE Propagate(out)

_update_status(out) ==
    IF out.kind = "ok" THEN Return("None")
    ELSE IF IsInstance(out.kind, "httpx.HTTPStatusError")
    THEN IF out.status_code = 404
         THEN Raise("SekhaNotFoundError", 0, "")
         ELSE IF out.status_code = 400
         THEN Raise("SekhaValidationError", 0, out.text)
         ELSE Raise("SekhaAPIError", out.status_code, out.text)
    ELSE IF IsInstance(out.kind, "Exception")
    THEN Wrap("SekhaError", out)
    ELSE Propagate(out)

\* the methods that issue an HTTP request themselves
Methods ==
    {"create_conversation", "get_conversation", "list_conversations",
     "update_label", "delete_conversation", "smart_query",
     "score_message_importance", "generate_summary", "get_pruning_suggestions",
     "suggest_labels", "export", "_update_status", "get_mcp_tools"}

\* the network operations of SekhaClient: the public methods
Operations == (Methods \ {"_update_status"}) \cup {"auto_label", "pin", "archive"}

\* how method m ends when its HTTP attempt ends in `out`
Translate(m, out) ==
    CASE m = "create_conversation" -> create_conversation(out)
      [] m = "get_conversation" -> get_conversation(out)
      [] m = "list_conversations" -> list_conversations(out)
      [] m = "update_label" -> update_label(out)
      [] m = "delete_conversation" -> delete_conversation(out)
      [] m = "smart_query" -> smart_query(out)
      [] m = "score_message_importance" -> score_message_importance(out)
      [] m = "generate_summary" -> generate_summary(out)
      [] m = "get_pruning_suggestions" -> get_pruning_suggestions(out)
      [] m = "suggest_labels" -> suggest_labels(out)
      [] m = "export" -> export(out)
      [] m = "_update_status" -> _update_status(out)
      [] m = "get_mcp_tools" -> get_mcp_tools(out)

\* the method whose request an operation issues first
FirstRequest(o) ==
    CASE o = "auto_label" -> "suggest_labels"
      [] o \in {"pin", "archive"} -> "_update_status"
      [] OTHER -> o

\* (variant: _update_status sends without acquiring)
AcquiresFirstButStatus(m) == m # "_update_status"

\* every method opens with `await self.rate_limiter.acquire()`
AcquiresFirst(m) == TRUE

\* @backoff.on_exception(backoff.expo, (SekhaConnectionError,
\* httpx.TimeoutException), max_tries=3) on create_conversation
max_tries == 3

\* (variant: the decorator is given the base class of the SDK's errors)
RetryOnAnySekhaError == {"SekhaError", "httpx.TimeoutException"}

RetryOn == {"SekhaConnectionError", "httpx.TimeoutException"}

Retried(o) == o = "create_conversation"

ShouldRetry(o, r, tries) ==
    /\ Retried(o)
    /\ \E cls \in RetryOn : IsInstance(r.exc, cls)
    /\ tries < max_tries

\* auto_label: index of the first suggestion whose confidence reaches the
\* threshold, 0 when there is none
\* (variant: the first suggestion is taken without looking at its confidence)
FirstSuggestion(suggestions, threshold) == IF suggestions = <<>> THEN 0 ELSE 1

\* the suggestions (by index) whose confidence reaches the threshold
Meeting(suggestions, threshold) ==
    {i \in 1..Len(suggestions) : suggestions[i].confidence >= threshold}

FirstConfident(suggestions, threshold) ==
    LET I == {i \in 1..Len(suggestions) : suggestions[i].confidence >= threshold}
    IN  IF I = {} THEN 0 ELSE MinOf(I)

\* op: the operation called; req: the method issuing the current request;
\* tries: calls of the retried method so far; att: requests begun; nAcq, nHttp:
\* acquires completed and HTTP requests sent by this operation; thr, label:
\* auto_label's threshold and chosen label; out: how the last HTTP attempt
\* ended; result: how the operation ended
NoOutcome == [kind |-> "none", status_code |-> 0, text |-> "", msg |-> ""]

\* the HTTP verb and the route of each method's request
Verb(m) ==
    CASE m \in {"create_conversation", "smart_query", "score_message_importance",
                "generate_summary", "suggest_labels"} -> "POST"
      [] m \in {"update_label", "_update_status"} -> "PUT"
      [] m = "delete_conversation" -> "DELETE"
      [] OTHER -> "GET"

Route(m) ==
    CASE m \in {"create_conversation", "list_conversations"} -> "/api/v1/conversations"
      [] m \in {"get_conversation", "delete_conversation"} -> "/api/v1/conversations/{id}"
      [] m = "update_label" -> "/api/v1/conversations/{id}/label"
      [] m = "smart_query" -> "/api/v1/query/smart"
      [] m = "score_message_importance" -> "/api/v1/messages/{id}/importance"
      [] m = "generate_summary" -> "/api/v1/conversations/{id}/summary"
      [] m = "get_pruning_suggestions" -> "/api/v1/prune/suggestions"
      [] m = "suggest_labels" -> "/api/v1/conversations/{id}/suggest-labels"
      [] m = "export" -> "/api/v1/export"
      [] m = "_update_status" -> "/api/v1/conversations/{id}/status"
      [] OTHER -> "/mcp/tools"

\* (variant: pin and archive pass each other's status)
StatusArgSwapped(o) == IF o = "pin" THEN "archived" ELSE "pinned"

\* the status pin and archive pass to _update_status
StatusArg(o) == IF o = "pin" THEN "pinned" ELSE "archived"

\* The request a method hands to the transport.  Of the bodies only the
\* status of _update_status and the label of update_label are kept.
HttpRequest(rec) ==
    [verb |-> Verb(rec.req), route |-> Route(rec.req),
     body |-> CASE rec.req = "_update_status" -> [status |-> StatusArg(rec.op)]
                [] rec.req = "update_label" -> [label |-> rec.label]
                [] OTHER -> [other |-> ""]]

\* op: the operation called; req: the method whose request is under way;
\* tries: calls of the retried method; att, nAcq, nHttp: requests begun,
\* acquires completed and requests sent by the operation; sent: those requests;
\* thr, label: auto_label's threshold and chosen label; met, conf, top: the
\* number of suggestions that reach the threshold, the confidence of the chosen
\* one and the highest confidence among them; out: outcome of the last attempt
NoOp == [op |-> "none", req |-> "none", tries |-> 0, att |-> 0, nAcq |-> 0,
         nHttp |-> 0, sent |-> <<>>, thr |-> 0, label |-> "none", met |-> 0,
         conf |-> 0, top |-> 0, out |-> NoOutcome, result |-> NoResult]

\* ------------------------------------------------------------ RateLimiter
\* RateLimiter.__init__ stores its arguments unchecked: every budget is accepted.
RateLimiterInit(k, w) == TRUE

\* (variant: the condition of the comprehension compares the wrong way round)
PruneReversed(reqs, now) == SelectSeq(reqs, LAMBDA req : req - now < window_seconds)

\* the list comprehension of acquire: keep what is still inside the window
Prune(reqs, now) == SelectSeq(reqs, LAMBDA req : now - req < window_seconds)

\* wait_time of acquire, measured from the first entry of the list
WaitTime(reqs, now) == window_seconds - (now - reqs[1])

\* (variant: the limit test written `>` instead of `>=`)
SleepDurationOffByOne(reqs, now) ==
    IF max_requests <= 0
    THEN window_seconds
    ELSE IF Len(reqs) > max_requests /\ WaitTime(reqs, now) > 0
         THEN WaitTime(reqs, now)
         ELSE -1

\* (variant: acquire without its max_requests <= 0 branch)
SleepDurationNoZeroBranch(reqs, now) ==
    IF Len(reqs) >= max_requests /\ Len(reqs) > 0 /\ WaitTime(reqs, now) > 0
    THEN WaitTime(reqs, now)
    ELSE -1

\* (variant: a zero budget sleeps `window_seconds or 1`)
SleepDurationOrOne(reqs, now) ==
    IF max_requests <= 0
    THEN IF window_seconds = 0 THEN 1 ELSE window_seconds
    ELSE IF Len(reqs) >= max_requests /\ WaitTime(reqs, now) > 0
         THEN WaitTime(reqs, now)
         ELSE -1

\* The duration acquire hands to asyncio.sleep after pruning, -1 when it does
\* not sleep at all.
SleepDuration(reqs, now) ==
    IF max_requests <= 0
    THEN window_seconds
    ELSE IF Len(reqs) >= max_requests /\ WaitTime(reqs, now) > 0
         THEN WaitTime(reqs, now)
         ELSE -1

\* (variant: acquire without `async with self._lock`)
LockIgnored == TRUE

\* asyncio.Lock.acquire takes the lock at once only when it is free and nobody
\* is queued for it.
LockIsFree == ~locked /\ waiters = <<>>

\* the tasks inside the critical section of acquire (suspended in its sleep)
InCritical == {p \in Tasks : pc[p] = "sleeping"}

\* acquire() has returned to task p, which runs operation record `rec`: a bare
\* acquire is over; a client method goes on, without an await in between, to
\* hand its request to the transport (await self.client.get/post/put/delete).
AcquireReturn(p, c, rec) ==
    /\ log' = Append(log, [c EXCEPT !.wake = -1] @@
                            [task |-> p, ret |-> clock, client |-> rec.op # "acquire"])
    /\ call' = [call EXCEPT ![p] = NoCall]
    /\ IF rec.op = "acquire"
       THEN /\ pc' = [pc EXCEPT ![p] = "idle"]
            /\ cl' = [cl EXCEPT ![p] = rec]
            /\ UNCHANGED httpSent
       ELSE /\ pc' = [pc EXCEPT ![p] = "sending"]
            /\ cl' = [cl EXCEPT ![p] = [rec EXCEPT !.nAcq = @ + 1, !.nHttp = @ + 1,
                                                   !.sent = Append(@, HttpRequest(rec))]]
            /\ httpSent' = httpSent + 1

\* The body of `async with self._lock`, up to its first await or its end.
Body(p, c, rec) ==
    LET now == clock
        pruned == Prune(requests, now)
        d == SleepDuration(pruned, now)
        c2 == [c EXCEPT !.now = now, !.cnt = Len(pruned),
                        !.oldest = OldestOf(pruned)]
    IN  IF d >= 0
        THEN /\ requests' = pruned
             /\ locked' = TRUE
             /\ pc' = [pc EXCEPT ![p] = "sleeping"]
             /\ call' = [call EXCEPT ![p] = [c2 EXCEPT !.wake = now + d, !.susp = TRUE]]
             /\ cl' = [cl EXCEPT ![p] = rec]
             /\ UNCHANGED <<log, httpSent>>
        ELSE /\ requests' = Append(pruned, now)
             /\ locked' = FALSE
             /\ AcquireReturn(p, c2, rec)

\* Task p, running operation record `rec`, calls acquire().
BeginAcquire(p, rec) ==
    /\ started < MaxCalls
    /\ started' = started + 1
    /\ LET inwin == SelectSeq(requests, LAMBDA req : clock - req < window_seconds)
           c == [NoCall EXCEPT !.t = clock, !.free = ~locked /\ waiters = <<>>,
                               !.ccnt = Len(inwin), !.coldest = OldestOf(inwin)]
       IN  IF LockIsFree
           THEN Body(p, c, rec) /\ UNCHANGED waiters
           ELSE /\ waiters' = Append(waiters, p)
                /\ pc' = [pc EXCEPT ![p] = "waitlock"]
                /\ call' = [call EXCEPT ![p] = [c EXCEPT !.susp = TRUE]]
                /\ cl' = [cl EXCEPT ![p] = rec]
                /\ UNCHANGED <<requests, locked, log, httpSent>>

\* a task calls limiter.acquire() directly
Acquire(p) ==
    /\ pc[p] = "idle"
    /\ BeginAcquire(p, [NoOp EXCEPT !.op = "acquire"])
    /\ UNCHANGED <<max_retries, backoffVars, max_requests, window_seconds, clock>>

\* The lock was released and p is the first waiter: it takes the lock.
LockGranted(p) ==
    /\ pc[p] = "waitlock"
    /\ ~locked
    /\ waiters # <<>> /\ Head(waiters) = p
    /\ waiters' = Tail(waiters)
    /\ Body(p, call[p], cl[p])
    /\ UNCHANGED <<max_retries, backoffVars, max_requests, window_seconds, clock, started>>

\* (variant: the clock is read again after the sleep)
WakeFreshClock(p) ==
    /\ pc[p] = "sleeping"
    /\ clock >= call[p].wake
    /\ requests' = Append(requests, clock)
    /\ locked' = FALSE
    /\ AcquireReturn(p, call[p], cl[p])
    /\ UNCHANGED <<max_retries, backoffVars, max_requests, window_seconds, clock, waiters, started>>

\* asyncio.sleep is over: record the request and leave the critical section.
Wake(p) ==
    /\ pc[p] = "sleeping"
    /\ clock >= call[p].wake
    /\ requests' = Append(requests, call[p].now)
    /\ locked' = FALSE
    /\ AcquireReturn(p, call[p], cl[p])
    /\ UNCHANGED <<max_retries, backoffVars, max_requests, window_seconds, clock, waiters, started>>

\* ----------------------------------------------------- ExponentialBackoff
\* Delays are whole time units; jitter and sleep durations are counted in
\* hundredths of a unit, so that delay * 0.1 * r / 10 is the integer delay * r.
RECURSIVE Pow(_, _)
Pow(b, n) == IF n = 0 THEN 1 ELSE b * Pow(b, n - 1)

\* (variant: the cap of max_delay left out)
DelayUncapped(n) == base_delay * Pow(factor, n)

\* delay of wait(), computed from the attempt counter n
Delay(n) == MinOf({base_delay * Pow(factor, n), max_delay})

\* hash(id(asyncio.current_task())): one value per task object
TaskHashes == {0, 13, 29}

\* (variant: the final division by ten left out)
JitterUndivided(d, h) == 10 * d * (h % HashMod)

\* jitter of wait() in hundredths: delay * 0.1 * (hash % 10) / 10
Jitter(d, h) == (10 * d * (h % HashMod)) \div 10

\* n, delay, jitter, slept: the attempt counter read by the call and its locals
\* (slept: the argument of asyncio.sleep, in hundredths); the locals are gone
\* when the call is over
NoWait == [n |-> -1, delay |-> -1, jitter |-> -1, slept |-> -1]

\* ExponentialBackoff(base_delay=b, max_delay=m, factor=f)
ExponentialBackoffInit(b, m, f) ==
    /\ base_delay = b
    /\ max_delay = m
    /\ factor = f
    /\ attempt = 0
    /\ bw = [p \in Tasks |-> NoWait]
    /\ lastCall = "none"

\* the instance SekhaClient.__init__ builds (0.5 s, 10 s, 2.0), in half seconds
ClientBackoff == [base_delay |-> 1, max_delay |-> 20, factor |-> 2]

\* Task p, whose task object hashes to h, calls wait(): delay and jitter are
\* computed, then the task sleeps.
WaitCallAs(p, h) ==
    /\ pc[p] = "idle"
    /\ attempt < MaxAttempt
    /\ LET d == Delay(attempt)
           j == Jitter(d, h)
       IN  bw' = [bw EXCEPT ![p] = [n |-> attempt, delay |-> d, jitter |-> j,
                                    slept |-> 100 * d + j]]
    /\ pc' = [pc EXCEPT ![p] = "wait"]
    /\ cl' = [cl EXCEPT ![p] = [NoOp EXCEPT !.op = "wait"]]
    /\ lastCall' = "wait"
    /\ UNCHANGED <<base_delay, max_delay, factor, attempt>>
    /\ UNCHANGED <<max_retries, max_requests, window_seconds, requests, locked,
                   waiters, clock, call, started, log, httpSent>>

WaitCall(p) == \E h \in TaskHashes : WaitCallAs(p, h)

\* asyncio.sleep of wait() is over: the attempt counter is advanced.
WaitDone(p) ==
    /\ pc[p] = "wait"
    /\ attempt' = attempt + 1
    /\ pc' = [pc EXCEPT ![p] = "idle"]
    /\ bw' = [bw EXCEPT ![p] = NoWait]
    /\ lastCall' = "waited"
    /\ UNCHANGED <<base_delay, max_delay, factor, cl>>
    /\ UNCHANGED <<max_retries, max_requests, window_seconds, requests, locked,
                   waiters, clock, call, started, log, httpSent>>

\* (variant: reset steps the counter back by one)
ResetByOne ==
    /\ attempt' = IF attempt > 0 THEN attempt - 1 ELSE 0
    /\ lastCall' = "reset"
    /\ UNCHANGED <<base_delay, max_delay, factor, bw, pc, cl>>
    /\ UNCHANGED <<max_retries, max_requests, window_seconds, requests, locked,
                   waiters, clock, call, started, log, httpSent>>

\* reset(): a plain method, it runs without suspending
Reset ==
    /\ attempt' = 0
    /\ lastCall' = "reset"
    /\ UNCHANGED <<base_delay, max_delay, factor, bw, pc, cl>>
    /\ UNCHANGED <<max_retries, max_requests, window_seconds, requests, locked,
                   waiters, clock, call, started, log, httpSent>>

\* --------------------------------------------------------- cancellation
\* how a cancelled call ends: asyncio.CancelledError is raised at its await
Cancelled == Raise("asyncio.CancelledError", 0, "")

\* (variant: the counter is advanced in a finally block)
CancelWaitCounted(p) ==
    /\ pc[p] = "wait"
    /\ attempt' = attempt + 1
    /\ pc' = [pc EXCEPT ![p] = "idle"]
    /\ cl' = [cl EXCEPT ![p].result = Cancelled]
    /\ bw' = [bw EXCEPT ![p] = NoWait]
    /\ lastCall' = "cancel"
    /\ UNCHANGED <<base_delay, max_delay, factor>>
    /\ UNCHANGED <<max_retries, max_requests, window_seconds, requests, locked,
                   waiters, clock, call, started, log, httpSent>>

\* Task p is cancelled inside wait(): the sleep raises, `attempt += 1` is not
\* reached.
CancelWait(p) ==
    /\ pc[p] = "wait"
    /\ pc' = [pc EXCEPT ![p] = "idle"]
    /\ cl' = [cl EXCEPT ![p].result = Cancelled]
    /\ bw' = [bw EXCEPT ![p] = NoWait]
    /\ lastCall' = "cancel"
    /\ UNCHANGED <<base_delay, max_delay, factor, attempt>>
    /\ UNCHANGED <<max_retries, max_requests, window_seconds, requests, locked,
                   waiters, clock, call, started, log, httpSent>>

\* (variant: the lock is taken and released by hand, without try/finally)
CancelAcquireKeepsLock(p) ==
    /\ pc[p] \in {"waitlock", "sleeping"}
    /\ IF pc[p] = "waitlock"
       THEN waiters' = SelectSeq(waiters, LAMBDA q : q # p)
       ELSE UNCHANGED waiters
    /\ UNCHANGED locked
    /\ pc' = [pc EXCEPT ![p] = "idle"]
    /\ call' = [call EXCEPT ![p] = NoCall]
    /\ cl' = [cl EXCEPT ![p].result = Cancelled]
    /\ UNCHANGED <<requests, started, log, httpSent>>
    /\ UNCHANGED <<max_retries, backoffVars, max_requests, window_seconds, clock>>

\* Task p is cancelled inside acquire().  Waiting for the lock: the task leaves
\* the lock's queue.  In the sleep: the exception leaves the `async with`
\* block, which releases the lock; the append is not reached.
CancelAcquire(p) ==
    /\ pc[p] \in {"waitlock", "sleeping"}
    /\ IF pc[p] = "waitlock"
       THEN /\ waiters' = SelectSeq(waiters, LAMBDA q : q # p)
            /\ UNCHANGED locked
       ELSE /\ locked' = FALSE
            /\ UNCHANGED waiters
    /\ pc' = [pc EXCEPT ![p] = "idle"]
    /\ call' = [call EXCEPT ![p] = NoCall]
    /\ cl' = [cl EXCEPT ![p].result = Cancelled]
    /\ UNCHANGED <<requests, started, log, httpSent>>
    /\ UNCHANGED <<max_retries, backoffVars, max_requests, window_seconds, clock>>

\* ------------------------------------------------- SekhaClient: operations
\* Task p begins the request of rec.req: acquire a slot, then send.
Request(p, rec) ==
    IF AcquiresFirst(rec.req)
    THEN BeginAcquire(p, rec)
    ELSE /\ pc' = [pc EXCEPT ![p] = "sending"]
         /\ cl' = [cl EXCEPT ![p] = [rec EXCEPT !.nHttp = @ + 1,
                                                !.sent = Append(@, HttpRequest(rec))]]
         /\ httpSent' = httpSent + 1
         /\ UNCHANGED <<requests, locked, waiters, call, started, log>>

\* The operation of task p ends with result r.
Finish(p, rec, r) ==
    /\ pc' = [pc EXCEPT ![p] = "idle"]
    /\ cl' = [cl EXCEPT ![p] = [rec EXCEPT !.result = r]]
    /\ UNCHANGED <<requests, locked, waiters, call, started, log, httpSent>>

\* Task p calls operation o of the client (auto_label with threshold thr).
StartOp(p, o, thr) ==
    /\ pc[p] = "idle"
    /\ Request(p, [NoOp EXCEPT !.op = o, !.req = FirstRequest(o), !.tries = 1,
                               !.att = 1, !.thr = thr])
    /\ UNCHANGED <<max_retries, backoffVars, max_requests, window_seconds, clock>>

\* The HTTP attempt of task p ends in `out`; the method's except clauses
\* translate it, the retry decorator and auto_label's loop act on the result.
Respond(p, out) ==
    /\ pc[p] = "sending"
    /\ LET rec == [cl[p] EXCEPT !.out = [kind |-> out.kind,
                                         status_code |-> out.status_code,
                                         text |-> out.text, msg |-> out.msg]]
           r == Translate(rec.req, out)
           i == FirstConfident(out.data, rec.thr)
           M == Meeting(out.data, rec.thr)
           seen == [rec EXCEPT !.met = Cardinality(M),
                               !.top = IF M = {} THEN 0
                                       ELSE MaxOf({out.data[j].confidence : j \in M}),
                               !.conf = IF i = 0 THEN 0 ELSE out.data[i].confidence]
       IN  IF ShouldRetry(rec.op, r, rec.tries)
           THEN /\ pc' = [pc EXCEPT ![p] = "backoff"]
                /\ cl' = [cl EXCEPT ![p] = rec]
                /\ UNCHANGED <<requests, locked, waiters, call, started, log,
                               httpSent>>
           ELSE IF rec.op = "auto_label" /\ r.exc = "none"
           THEN IF rec.req = "update_label"
                THEN Finish(p, rec, Return(rec.label))
                ELSE IF i = 0
                THEN Finish(p, seen, Return("None"))
                ELSE Request(p, [seen EXCEPT !.req = "update_label",
                                            !.label = out.data[i].label,
                                            !.att = @ + 1])
           ELSE Finish(p, rec, r)
    /\ UNCHANGED <<max_retries, backoffVars, max_requests, window_seconds, clock>>

RespondAny(p) == \E out \in Outcomes(cl[p].req) : Respond(p, out)

\* The retry decorator calls the method again after its wait.
Retry(p) ==
    /\ pc[p] = "backoff"
    /\ Request(p, [cl[p] EXCEPT !.tries = @ + 1, !.att = @ + 1])
    /\ UNCHANGED <<max_retries, backoffVars, max_requests, window_seconds, clock>>

Tick ==
    /\ clock < MaxTime
    /\ clock' = clock + 1
    /\ UNCHANGED <<max_retries, backoffVars, max_requests, window_seconds, requests, locked, waiters,
                   pc, call, started, log, cl, httpSent>>

Init ==
    /\ max_requests \in -1..MaxBudget
    /\ window_seconds \in 0..MaxWindow
    /\ RateLimiterInit(max_requests, window_seconds)
    /\ requests = <<>>
    /\ locked = FALSE
    /\ waiters = <<>>
    /\ clock = 0
    /\ pc = [p \in Tasks |-> "idle"]
    /\ call = [p \in Tasks |-> NoCall]
    /\ started = 0
    /\ log = <<>>
    /\ cl = [p \in Tasks |-> NoOp]
    /\ httpSent = 0
    /\ max_retries = 3
    /\ ExponentialBackoffInit(ClientBackoff.base_delay, ClientBackoff.max_delay,
                              ClientBackoff.factor)

Next ==
    \/ Tick
    \/ \E p \in Tasks : Acquire(p)
    \/ \E p \in Tasks : LockGranted(p)
    \/ \E p \in Tasks : Wake(p)

\* the limiter used directly by concurrent tasks
Spec == Init /\ [][Next]_vars

\* ClientConfig.__post_init__ checks timeout and max_retries (api_key and
\* base_url are taken as valid); rate_limit_requests is not looked at.
ClientConfigPostInit(config) ==
    /\ config.timeout > 0
    /\ config.max_retries >= 0

\* the task that calls the client's operations; the other tasks use the
\* client's limiter directly
ClientTask == MinOf(Tasks)

\* SekhaClient.__init__ builds its limiter from the validated configuration.
\* The client is given a zero-length window, so its limiter never reads the
\* clock beyond pruning and the clock is left at rest; a budget <= 0 still
\* suspends every acquire in asyncio.sleep(0) with the lock held.
InitClient ==
    /\ \E config \in [timeout : {0, 30}, max_retries : {-1, 1, 3},
                       rate_limit_requests : {-1, 0, 1}, rate_limit_window : {0}] :
          /\ ClientConfigPostInit(config)
          /\ max_retries = config.max_retries
          /\ max_requests = config.rate_limit_requests
          /\ window_seconds = config.rate_limit_window
          /\ RateLimiterInit(max_requests, window_seconds)
    /\ requests = <<>>
    /\ locked = FALSE
    /\ waiters = <<>>
    /\ clock = 0
    /\ pc = [p \in Tasks |-> "idle"]
    /\ call = [p \in Tasks |-> NoCall]
    /\ started = 0
    /\ log = <<>>
    /\ cl = [p \in Tasks |-> NoOp]
    /\ httpSent = 0
    /\ ExponentialBackoffInit(ClientBackoff.base_delay, ClientBackoff.max_delay,
                              ClientBackoff.factor)

NextClient ==
    \/ \E p \in Tasks \ {ClientTask} : Acquire(p)
    \/ \E p \in Tasks : LockGranted(p)
    \/ \E p \in Tasks : Wake(p)
    \/ \E o \in Operations :
          \E thr \in IF o = "auto_label" THEN Thresholds ELSE {0} :
              StartOp(ClientTask, o, thr)
    \/ \E p \in Tasks : RespondAny(p)
    \/ \E p \in Tasks : Retry(p)

\* concurrent operations of one SekhaClient
ClientSpec == InitClient /\ [][NextClient]_vars

\* the rate limiter is not used
LimiterAtRest ==
    /\ requests = <<>>
    /\ locked = FALSE
    /\ waiters = <<>>
    /\ clock = 0
    /\ pc = [p \in Tasks |-> "idle"]
    /\ call = [p \in Tasks |-> NoCall]
    /\ started = 0
    /\ log = <<>>
    /\ cl = [p \in Tasks |-> NoOp]
    /\ httpSent = 0
    /\ max_retries = 3

\* the parameters tried: a positive base delay, a factor >= 1 and a cap that
\* the sequence reaches within MaxAttempt waits
BaseDelays == 1..MaxBase
Factors == 1..MaxFactor
Caps == {MaxCap - 2, MaxCap}

InitBackoff ==
    /\ max_requests = 1
    /\ window_seconds = 0
    /\ LimiterAtRest
    /\ \E b \in BaseDelays, m \in Caps, f \in Factors :
          ExponentialBackoffInit(b, m, f)

NextBackoff ==
    \/ \E p \in Tasks : WaitCall(p)
    \/ \E p \in Tasks : WaitDone(p)
    \/ \E p \in Tasks : CancelWait(p)
    \/ Reset

\* one ExponentialBackoff used by concurrent tasks
BackoffSpec == InitBackoff /\ [][NextBackoff]_vars

InitCancel ==
    /\ max_requests = 0
    /\ window_seconds = 1
    /\ RateLimiterInit(max_requests, window_seconds)
    /\ LimiterAtRest
    /\ ExponentialBackoffInit(ClientBackoff.base_delay, ClientBackoff.max_delay,
                              ClientBackoff.factor)

NextCancel ==
    \/ Tick
    \/ \E p \in Tasks : Acquire(p)
    \/ \E p \in Tasks : LockGranted(p)
    \/ \E p \in Tasks : Wake(p)
    \/ \E p \in Tasks : CancelAcquire(p)
    \/ WaitCallAs(ClientTask, MaxOf(TaskHashes))
    \/ WaitDone(ClientTask)
    \/ CancelWait(ClientTask)

\* tasks that use a limiter and a backoff object and may be cancelled at any
\* await
CancelSpec == InitCancel /\ [][NextCancel]_vars

\* Time passes for as long as a task sleeps towards a later instant (with no
\* task asleep the clock is left at rest: nothing awaits it).
Elapse ==
    /\ \E p \in Tasks : pc[p] = "sleeping" /\ call[p].wake > clock
    /\ clock' = clock + 1
    /\ UNCHANGED <<max_retries, backoffVars, max_requests, window_seconds, requests,
                   locked, waiters, pc, call, started, log, cl, httpSent>>

InitLive ==
    /\ max_requests \in -1..MaxBudget
    /\ window_seconds \in 0..1
    /\ RateLimiterInit(max_requests, window_seconds)
    /\ LimiterAtRest
    /\ ExponentialBackoffInit(ClientBackoff.base_delay, ClientBackoff.max_delay,
                              ClientBackoff.factor)

NextLive ==
    \/ Elapse
    \/ \E p \in Tasks : Acquire(p)
    \/ \E p \in Tasks : LockGranted(p)
    \/ \E p \in Tasks : Wake(p)
    \/ \E p \in Tasks : CancelAcquire(p)

\* The event loop resumes every task that is ready to run, and time does not
\* stand still; nothing obliges a caller to call or to cancel.
Fairness ==
    /\ WF_vars(Elapse)
    /\ \A p \in Tasks : WF_vars(LockGranted(p))
    /\ \A p \in Tasks : WF_vars(Wake(p))

\* the limiter under a fair event loop, with cancellation
LiveSpec == InitLive /\ [][NextLive]_vars /\ Fairness

\* =================================================================== claims
\* C1: rate limiter capacity.  For max_requests = k >= 1 and a window W > 0, no
\* interval [t, t + W) holds more than k instants at which an acquire call
\* returned to its caller.
RateLimiterCapacity ==
    (max_requests >= 1 /\ window_seconds > 0) =>
        \A i \in 1..Len(log) :
            Cardinality({j \in 1..Len(log) :
                            /\ log[j].ret >= log[i].ret
                            /\ log[j].ret - log[i].ret < window_seconds})
                <= max_requests

\* C2: RateBudget invariant.  Whenever no acquire call is inside its critical
\* section, the recorded timestamps within the trailing window of the latest
\* recorded instant number at most max_requests.
RateBudgetInvariant ==
    (max_requests >= 1 /\ InCritical = {} /\ ~locked /\ requests # <<>>) =>
        Cardinality({i \in 1..Len(requests) :
                        MaxOf(Range(requests)) - requests[i] < window_seconds})
            <= max_requests

\* C3: a call that finds max_requests (>= 1) timestamps in the window does not
\* return before window_seconds have elapsed since the oldest of them, whether
\* the window is looked at when the call is made or when it enters the critical
\* section; two callers of a limiter with max_requests = 1 are admitted at least
\* window_seconds apart; and a call made with the lock free and fewer than
\* max_requests timestamps in the window returns without suspending.
AtLimitWaitsForOldest ==
    max_requests >= 1 =>
        /\ \A i \in 1..Len(log) :
              /\ log[i].cnt >= max_requests =>
                    log[i].ret >= log[i].oldest + window_seconds
              /\ log[i].ccnt >= max_requests =>
                    log[i].ret >= log[i].coldest + window_seconds
              /\ (log[i].free /\ log[i].cnt < max_requests) =>
                    (~log[i].susp /\ log[i].ret = log[i].t)
        /\ \A p \in Tasks :
              pc[p] = "sleeping" => call[p].cnt >= max_requests
        /\ (max_requests = 1 /\ started = 2 /\ Len(log) = 2) =>
              log[2].ret - log[1].ret >= window_seconds

\* a second caller found the single slot taken and was admitted a window later
AtLimitWaitsForOldestWitness ==
    /\ max_requests = 1 /\ window_seconds = 2
    /\ started = 2 /\ Len(log) = 2
    /\ log[2].cnt = 1 /\ log[2].susp
    /\ log[2].ret - log[1].ret = 2

\* C4: mutual exclusion of acquire.  At most one call is inside the
\* prune-check-(wait)-record sequence, the lock is held while it is, the critical
\* sections of any two calls do not overlap, and while a call is suspended in
\* its sleep nobody but that call changes `requests`.
MutualExclusionState ==
    /\ Cardinality(InCritical) <= 1
    /\ InCritical # {} => locked
    /\ \A i, j \in 1..Len(log) : i < j => log[i].ret <= log[j].now
    /\ \A p \in InCritical : \A i \in 1..Len(log) : log[i].ret <= call[p].now

MutualExclusionStep ==
    \A p \in InCritical :
        requests' # requests =>
            /\ pc'[p] # "sleeping"
            /\ requests' = Append(requests, call[p].now)

MutualExclusion == []MutualExclusionState /\ [][MutualExclusionStep]_vars

\* a second caller queued on the lock while the first slept inside the section
MutualExclusionWitness ==
    \E p, q \in Tasks :
        /\ pc[p] = "sleeping" /\ pc[q] = "waitlock"
        /\ call[q].t > call[p].now /\ call[p].wake > clock

\* C5: zero budget.  With max_requests = 0 every acquire call returns no earlier
\* than window_seconds after it was called.
ZeroBudget ==
    max_requests = 0 =>
        \A i \in 1..Len(log) : log[i].ret - log[i].t >= window_seconds

\* two callers of a closed limiter: one waited the window, the other longer
ZeroBudgetWitness ==
    /\ max_requests = 0 /\ window_seconds = 1
    /\ Len(log) = 2
    /\ log[1].ret - log[1].t = 1
    /\ log[2].ret - log[2].t > 1

\* C6: a negative max_requests is rejected at construction, so no limiter with
\* a negative budget ever reaches acquire.
NegativeBudgetRejected == max_requests < 0 => started = 0

\* the operation the client task has finished, if any
Finished(p) == pc[p] = "idle" /\ cl[p].op \in Operations

\* C7: every HTTP request is preceded by a completed acquire made for it.  The
\* requests sent never outnumber the client's completed acquires; within one
\* operation the k-th request is sent when its k-th acquire has returned, and
\* no request is out while the operation waits for a slot.
AcquireBeforeRequest ==
    /\ httpSent <= Cardinality({i \in 1..Len(log) : log[i].client})
    /\ \A p \in Tasks :
          /\ cl[p].nHttp = cl[p].nAcq
          /\ pc[p] \in {"sending", "backoff"} => cl[p].nHttp = cl[p].att
          /\ Finished(p) => cl[p].nHttp = cl[p].att
          /\ (pc[p] \in {"waitlock", "sleeping"} /\ cl[p].op # "acquire") =>
                cl[p].nHttp = cl[p].att - 1

\* the third attempt of a retried create_conversation is on the wire, after
\* three acquires
AcquireBeforeRequestWitness ==
    \E p \in Tasks :
        /\ pc[p] = "sending" /\ cl[p].op = "create_conversation"
        /\ cl[p].tries = 3 /\ cl[p].nAcq = 3 /\ cl[p].nHttp = 3
        /\ httpSent = 3

\* C8: every network operation ends by returning its result or by raising one
\* exception that is SekhaError or a subclass of it; no transport exception
\* reaches the caller.
OnlySekhaErrors ==
    \A p \in Tasks :
        Finished(p) => cl[p].result.exc \in {"none"} \cup SekhaErrors

\* C9: an HTTP 404 response makes every network operation fail with
\* SekhaNotFoundError.
NotFoundOn404 ==
    \A p \in Tasks :
        (Finished(p) /\ cl[p].out.status_code = 404) =>
            cl[p].result.exc = "SekhaNotFoundError"

\* C10: an HTTP 400 response makes every network operation fail with
\* SekhaValidationError, an HTTP 401 response with SekhaAuthError.
ValidationOn400AuthOn401 ==
    \A p \in Tasks :
        /\ (Finished(p) /\ cl[p].out.status_code = 400) =>
              cl[p].result.exc = "SekhaValidationError"
        /\ (Finished(p) /\ cl[p].out.status_code = 401) =>
              cl[p].result.exc = "SekhaAuthError"

\* C11: an HTTP error status other than 400, 401 and 404 (429, 500, ...) makes
\* every network operation fail with SekhaAPIError whose status_code and
\* response are the status and the raw body of the response.
APIErrorOnOtherStatus ==
    \A p \in Tasks :
        (/\ Finished(p)
         /\ cl[p].out.kind = "httpx.HTTPStatusError"
         /\ cl[p].out.status_code \notin {400, 401, 404}) =>
            /\ cl[p].result.exc = "SekhaAPIError"
            /\ cl[p].result.status_code = cl[p].out.status_code
            /\ cl[p].result.response = cl[p].out.text

\* the transport failures the retry policy calls transient
Transient(out) == out.kind \in {"httpx.TimeoutException", "httpx.ConnectError"}

\* C12: a network operation whose last attempt ended in a timeout or in a
\* refused connection fails with SekhaConnectionError, never with the base
\* SekhaError or with the transport's own exception.
ConnectionErrorOnTransportFailure ==
    \A p \in Tasks :
        (Finished(p) /\ Transient(cl[p].out)) =>
            cl[p].result.exc = "SekhaConnectionError"

\* C13: a failure that is neither an HTTP error status, a timeout nor a
\* connection failure makes every network operation fail with the base class
\* SekhaError itself, whose message contains the message of that failure.
SekhaErrorOnUnexpectedFailure ==
    \A p \in Tasks :
        (Finished(p) /\ cl[p].out.kind = "Exception") =>
            /\ cl[p].result.exc = "SekhaError"
            /\ cl[p].result.cause = cl[p].out.msg

\* C14: with ClientConfig.max_retries = m, create_conversation never makes more
\* than m HTTP attempts, and it gives up with SekhaConnectionError only after
\* exactly m of them: while fewer than m attempts have failed transiently it
\* tries again.
RetryBoundedByMaxRetries ==
    \A p \in Tasks :
        cl[p].op = "create_conversation" =>
            /\ cl[p].nHttp <= max_retries
            /\ (Finished(p) /\ Transient(cl[p].out)) =>
                  /\ cl[p].result.exc = "SekhaConnectionError"
                  /\ cl[p].nHttp = max_retries

\* the outcomes of an attempt that the retry policy calls terminal
Terminal(out) == out.kind \in {"httpx.HTTPStatusError", "Exception"}

RetryScope ==
    {"create_conversation", "get_conversation", "list_conversations",
     "get_pruning_suggestions", "export", "get_mcp_tools"}

\* C16: create_conversation and each idempotent read give up on a timeout or a
\* connection failure only after max_tries attempts, with SekhaConnectionError;
\* every other operation fails on its first such failure.
RetriedOperations ==
    \A p \in Tasks :
        (Finished(p) /\ Transient(cl[p].out)) =>
            IF cl[p].op \in RetryScope
            THEN /\ cl[p].tries = max_tries
                 /\ cl[p].result.exc = "SekhaConnectionError"
            ELSE cl[p].tries = 1

\* the tasks suspended in the sleep of ExponentialBackoff.wait
Waiting == {p \in Tasks : pc[p] = "wait"}

\* min(base_delay * factor^n, max_delay), the delay the n-th wait should use
ExpectedDelay(n) ==
    LET e == base_delay * Pow(factor, n)
    IN  IF e <= max_delay THEN e ELSE max_delay

DelaySequenceState ==
    /\ \A p \in Waiting :
          /\ bw[p].delay = ExpectedDelay(bw[p].n)
          /\ bw[p].delay <= max_delay
    /\ \A n \in 0..MaxAttempt :
          /\ Delay(n) <= Delay(n + 1)
          /\ Delay(n) <= max_delay

DelaySequenceStep ==
    /\ \A p \in Tasks :
          /\ (pc[p] = "idle" /\ pc'[p] = "wait") => bw'[p].n = attempt
          /\ (pc[p] = "wait" /\ pc'[p] = "idle" /\ lastCall' = "waited") =>
                attempt' = attempt + 1
    /\ base_delay' = base_delay
    /\ max_delay' = max_delay
    /\ factor' = factor

JitterBound ==
    \A p \in Waiting :
        /\ 0 <= bw[p].jitter /\ bw[p].jitter <= 10 * bw[p].delay
        /\ 100 * bw[p].delay <= bw[p].slept
        /\ bw[p].slept <= 110 * bw[p].delay

\* two tasks wait with the same delay, one with no jitter and one with the
\* largest (9 hundredths of the delay)
JitterBoundWitness ==
    \E p, q \in Waiting :
        /\ bw[p].delay = bw[q].delay /\ bw[p].delay > 0
        /\ bw[p].jitter = 0
        /\ bw[q].jitter = 9 * bw[q].delay

ResetState ==
    /\ lastCall = "reset" => attempt = 0
    /\ \A p \in Waiting :
          bw[p].n = 0 =>
              bw[p].delay = IF base_delay <= max_delay THEN base_delay ELSE max_delay

ResetStep ==
    /\ (lastCall' = "reset" /\ (lastCall # "reset" \/ attempt' # attempt)) =>
          /\ attempt' = 0
          /\ UNCHANGED <<base_delay, max_delay, factor, bw, pc>>
    /\ (lastCall = "reset" /\ lastCall' = "reset") => UNCHANGED backoffVars
    /\ (lastCall = "reset" /\ lastCall' = "wait") =>
          \E p \in Tasks : pc[p] = "idle" /\ pc'[p] = "wait" /\ bw'[p].n = 0

\* C19: backoff reset.  After reset() the attempt counter is 0 whatever it was,
\* and the wait called next reads 0 and uses the delay min(base_delay,
\* max_delay); a reset that follows a reset changes nothing; reset changes no
\* field but attempt.
BackoffReset == []ResetState /\ [][ResetStep]_vars

\* reset() was called while a task sleeps in a wait that read a counter >= 1
BackoffResetWitness ==
    /\ lastCall = "reset"
    /\ attempt = 0
    /\ \E p \in Waiting : bw[p].n >= 1

\* a step in which task p is cancelled at its await
CancelStep(p) == cl[p].result # Cancelled /\ cl'[p].result = Cancelled

CancellationStep ==
    \A p \in Tasks :
        CancelStep(p) =>
            /\ pc[p] \in {"waitlock", "sleeping", "wait"}
            /\ pc'[p] = "idle"
            /\ requests' = requests
            /\ log' = log
            /\ attempt' = attempt

\* C20: cancellation.  Cancelling a task suspended inside RateLimiter.acquire
\* (waiting for the lock or in its sleep) records no timestamp for that call,
\* and cancelling a task suspended inside ExponentialBackoff.wait leaves the
\* attempt counter at its value.
CancellationLeavesNoTrace == [][CancellationStep]_vars

\* one task was cancelled inside acquire and another inside wait, with a
\* timestamp recorded and a wait completed before
CancellationLeavesNoTraceWitness ==
    \E p, q \in Tasks :
        /\ cl[p].op = "acquire" /\ cl[p].result = Cancelled
        /\ cl[q].op = "wait" /\ cl[q].result = Cancelled
        /\ pc[p] = "idle" /\ pc[q] = "idle"
        /\ requests # <<>>
        /\ attempt = 1

\* C21: the backoff state is accessed under mutual exclusion.  At most one
\* task is inside the delay-then-increment sequence of wait(), so two tasks
\* that call wait() concurrently never both use the delay of the same attempt.
BackoffMutualExclusion ==
    /\ Cardinality(Waiting) <= 1
    /\ \A p, q \in Waiting : p # q => bw[p].n # bw[q].n

\* C22: auto_label issues one suggest-labels request; when a suggestion
\* reaches the threshold it then issues exactly one label-update request, for
\* the label it returns; when none does it issues no label-update request and
\* returns None.
AutoLabelRequests ==
    \A p \in Tasks :
        cl[p].op = "auto_label" =>
            LET suggests == {k \in 1..Len(cl[p].sent) :
                                cl[p].sent[k].route = Route("suggest_labels")}
                updates == {k \in 1..Len(cl[p].sent) :
                               cl[p].sent[k].route = Route("update_label")}
            IN  /\ Cardinality(suggests) <= 1
                /\ cl[p].nHttp >= 1 => suggests = {1}
                /\ (Finished(p) /\ cl[p].result.exc = "none") =>
                      IF cl[p].met >= 1
                      THEN /\ Cardinality(updates) = 1
                           /\ cl[p].result.value \in Labels
                           /\ \A k \in updates :
                                 /\ cl[p].sent[k].verb = "PUT"
                                 /\ cl[p].sent[k].body = [label |-> cl[p].result.value]
                      ELSE /\ updates = {}
                           /\ cl[p].result.value = "None"

\* auto_label returned a label after its two requests
AutoLabelRequestsWitness ==
    \E p \in Tasks :
        /\ Finished(p) /\ cl[p].op = "auto_label"
        /\ cl[p].result.value = "A" /\ cl[p].met = 1 /\ cl[p].thr = 80
        /\ Len(cl[p].sent) = 2

\* C23: when several suggestions reach the threshold, auto_label applies and
\* returns the one of highest confidence, whatever their order.
AutoLabelHighestConfidence ==
    \A p \in Tasks :
        (/\ cl[p].op = "auto_label"
         /\ cl[p].req = "update_label"
         /\ cl[p].met >= 2) =>
            cl[p].conf = cl[p].top

\* C24: pin and archive each issue, after one acquire, exactly one PUT to the
\* status route, with body {"status": "pinned"} and {"status": "archived"}
\* respectively, and return without error when the server answers with success.
PinArchiveRequest ==
    \A p \in Tasks :
        cl[p].op \in {"pin", "archive"} =>
            /\ Len(cl[p].sent) <= 1
            /\ Len(cl[p].sent) = cl[p].nAcq
            /\ \A k \in 1..Len(cl[p].sent) :
                  cl[p].sent[k] =
                      [verb |-> "PUT",
                       route |-> "/api/v1/conversations/{id}/status",
                       body |-> [status |-> IF cl[p].op = "pin" THEN "pinned"
                                            ELSE "archived"]]
            /\ (Finished(p) /\ cl[p].out.kind = "ok") =>
                  /\ cl[p].result.exc = "none"
                  /\ Len(cl[p].sent) = 1

\* pin returned after its request was answered with success
PinArchiveRequestWitness ==
    \E p \in Tasks :
        /\ Finished(p) /\ cl[p].op = "pin"
        /\ cl[p].out.kind = "ok" /\ cl[p].result.exc = "none"
        /\ cl[p].nAcq = 1 /\ Len(cl[p].sent) = 1

\* the acquire call of task p is in progress
InAcquire(p) == pc[p] \in {"waitlock", "sleeping"}

ZeroWindowState ==
    (window_seconds = 0 /\ max_requests >= 0) =>
        \A p \in Tasks :
            pc[p] = "sleeping" =>
                /\ call[p].wake - call[p].now <= 0
                /\ max_requests = 0

\* C25: zero-length window.  With window_seconds = 0 and max_requests >= 0 no
\* acquire call asks for a sleep of positive duration (it suspends only in
\* asyncio.sleep(0), when max_requests = 0), whatever was acquired before, and
\* every acquire call comes to an end.
ZeroWindow ==
    /\ []ZeroWindowState
    /\ \A p \in Tasks :
          (window_seconds = 0 /\ InAcquire(p)) ~> ~InAcquire(p)

\* with a zero window and a zero budget, after an earlier call has returned, a
\* call sleeps for no time while
\* another call waits for the lock
ZeroWindowWitness ==
    /\ window_seconds = 0 /\ max_requests = 0
    /\ Len(log) >= 1
    /\ \E p, q \in Tasks :
          /\ pc[p] = "sleeping" /\ call[p].wake = call[p].now
          /\ pc[q] = "waitlock"

\* C26: between the attempts of a retried operation the client waits on its own
\* ExponentialBackoff (SekhaClient.backoff): while the operation is under way
\* the attempt counter of that instance equals the number of retries made, and
\* once a call has succeeded it is 0.
ClientBackoffCountsRetries ==
    \A p \in Tasks :
        cl[p].op = "create_conversation" =>
            /\ ~Finished(p) => attempt = cl[p].tries - 1
            /\ (Finished(p) /\ cl[p].result.exc = "none") => attempt = 0

TimestampState ==
    \A i \in 1..Len(log) : log[i].now <= log[i].ret

\* a step in which an acquire call returns: e is its record, p its task
TimestampStep ==
    IF Len(log') = Len(log) + 1
    THEN LET e == log'[Len(log')]
             p == e.task
         IN  /\ e.ret = clock
             /\ IF pc[p] = "sleeping"
                THEN /\ e.now = call[p].now
                     /\ requests' = Append(requests, e.now)
                     /\ call[p].wake > call[p].now => e.now < e.ret
                ELSE /\ e.now = e.ret
                     /\ requests' =
                           Append(SelectSeq(requests,
                                            LAMBDA req : clock - req < window_seconds),
                                  e.now)
    ELSE /\ Len(log') = Len(log)
         /\ Len(requests') <= Len(requests)

\* C28: every acquire call that returns appends exactly one timestamp, the
\* clock value it read on entering the critical section, before its sleep.
\* The timestamp is never later than the instant of return, it is that instant
\* when the call did not sleep and earlier when it slept for a positive time;
\* after the sleep the list is appended to as it stands, without pruning.
TimestampAtEntry == []TimestampState /\ [][TimestampStep]_vars

\* a call that slept was recorded at an instant before its return, and an
\* entry older than the window is still in the list
TimestampAtEntryWitness ==
    /\ window_seconds > 0
    /\ \E i \in 1..Len(log) :
          /\ log[i].now < log[i].ret
          /\ log[i].now \in Range(requests)
          /\ log[i].ret = clock
          /\ \E r \in Range(requests) : clock - r >= window_seconds

\* C29: for max_requests >= 0 and a window > 0 (the clock never runs
\* backwards), `requests` is always in non-decreasing order, so that its first
\* entry is the oldest, and holds at most max_requests + 1 entries; for
\* max_requests >= 1 it holds at most max_requests entries right after the
\* pruning step of every acquire.
RequestsSortedAndBounded ==
    (max_requests >= 0 /\ window_seconds > 0) =>
        /\ \A i, j \in 1..Len(requests) : i < j => requests[i] <= requests[j]
        /\ requests # <<>> => requests[1] = OldestOf(requests)
        /\ Len(requests) <= max_requests + 1
        /\ max_requests >= 1 =>
              /\ \A i \in 1..Len(log) : log[i].cnt <= max_requests
              /\ \A p \in Tasks :
                    pc[p] = "sleeping" =>
                        /\ call[p].cnt <= max_requests
                        /\ Len(requests) = call[p].cnt

\* the list holds max_requests + 1 entries after a call that found it full
RequestsSortedAndBoundedWitness ==
    /\ max_requests = 1 /\ window_seconds > 0
    /\ Len(requests) = 2
    /\ requests[1] < requests[2]
    /\ \E i \in 1..Len(log) : log[i].cnt = 1 /\ log[i].now < log[i].ret

\* the lock is held exactly while one task is inside the critical section, and
\* the tasks queued on it are those waiting for it
LockReleasedOnExit ==
    /\ locked <=> Cardinality(InCritical) = 1
    /\ Cardinality(InCritical) <= 1
    /\ Range(waiters) = {p \in Tasks : pc[p] = "waitlock"}
    /\ Len(waiters) = Cardinality(Range(waiters))

\* C30: liveness of the limiter.  Every acquire call comes to an end: unless
\* it is cancelled it returns, however many callers there are.  The lock is
\* free again whenever the call that held it has returned or was cancelled, so
\* no call is kept waiting by a finished or cancelled one.
AcquireTerminates ==
    /\ []LockReleasedOnExit
    /\ \A p \in Tasks : InAcquire(p) ~> ~InAcquire(p)

\* of two calls, the one that held the lock was cancelled in its sleep and the
\* one that had queued behind it has returned
AcquireTerminatesWitness ==
    /\ started = 2 /\ Len(log) = 1
    /\ \E p, q \in Tasks :
          /\ p # q
          /\ pc[p] = "idle" /\ cl[p].result = Cancelled
          /\ pc[q] = "idle" /\ log[1].task = q
          /\ log[1].susp /\ ~log[1].free

====
